---- MODULE Spec2Model ----
(***************************************************************************)
(* World sectors, entity linking, area queries and move clipping of        *)
(* codemp/server/sv_world.cpp.                                             *)
(*                                                                         *)
(* Vectors are triples <<x, y, z>>; C axis a is component a + 1.           *)
(* Coordinates are integers: every world box used below has midpoints      *)
(* that are integers at all AREA_DEPTH levels, so 0.5 * (maxs + mins) is   *)
(* exact.  Pointers into sv_worldSectors and sv.svEntities are array       *)
(* indices, NULL is the null pointer of both.  An entity's number          *)
(* (s->number) is its index in sv.svEntities.  Content flags are sets of   *)
(* bit names, so | is \cup and & is \cap.                                  *)
(***************************************************************************)
EXTENDS Integers, Sequences, FiniteSets, TLC

AREA_DEPTH == 4
AREA_NODES == 64
MAX_TOTAL_ENT_LEAFS == 128
MAX_ENT_CLUSTERS == 16
MAX_GENTITIES == 1024
ENTITYNUM_NONE == 1023
ENTITYNUM_WORLD == 1022
NULL == -1

\* Number of entity slots of sv.svEntities that the model uses.
NumEnts == 2

Ents == 0 .. (NumEnts - 1)
Sectors == 0 .. (AREA_NODES - 1)

VARIABLES
    sv_worldSectors,     \* worldSector_t sv_worldSectors[AREA_NODES]
    sv_numworldSectors,  \* int sv_numworldSectors
    cm_modelBounds,      \* what CM_ModelBounds gave the last SV_ClearWorld
    svEntities,          \* the svEntity_t fields this file writes
    gEntities,           \* the entityShared_t fields this file writes
    ret                  \* the last query call: its arguments and result

vars == <<sv_worldSectors, sv_numworldSectors, cm_modelBounds, svEntities, gEntities, ret>>

world == <<sv_worldSectors, sv_numworldSectors, cm_modelBounds, svEntities, gEntities>>

(***************************************************************************)
(* Vectors                                                                 *)
(***************************************************************************)
vec3_origin == <<0, 0, 0>>

VectorAdd(a, b) == <<a[1] + b[1], a[2] + b[2], a[3] + b[3]>>

VecSet(v, axis, x) == [v EXCEPT ![axis + 1] = x]

Abs(x) == IF x < 0 THEN 0 - x ELSE x

Max2(a, b) == IF a > b THEN a ELSE b

\* Least r with r * r >= n: the length sqrt(n), exact when n is a square.
RECURSIVE SqrtUp(_, _)
SqrtUp(n, r) == IF r * r >= n THEN r ELSE SqrtUp(n, r + 1)

\* RadiusFromBounds: the length of the corner farthest from the origin.
RadiusFromBounds(mins, maxs) ==
    LET c(i) == Max2(Abs(mins[i]), Abs(maxs[i]))
    IN SqrtUp(c(1) * c(1) + c(2) * c(2) + c(3) * c(3), 0)

(***************************************************************************)
(* The sector tree                                                         *)
(***************************************************************************)
\* A worldSector_t after Com_Memset( ..., 0, ... ).
ZeroSector == [axis |-> 0, dist |-> 0, children |-> <<NULL, NULL>>, entities |-> NULL]

\* SV_CreateworldSector that makes its leaves one level early.
RECURSIVE SV_CreateworldSectorShallow(_, _, _, _, _)
SV_CreateworldSectorShallow(sectors, num, depth, mins, maxs) ==
    LET anode == num
    IN IF depth = AREA_DEPTH - 1
       THEN [sectors |-> [sectors EXCEPT ![anode].axis = -1,
                                         ![anode].children = <<NULL, NULL>>],
             num |-> num + 1, anode |-> anode]
       ELSE LET axis == IF maxs[1] - mins[1] > maxs[2] - mins[2] THEN 0 ELSE 1
                dist == (maxs[axis + 1] + mins[axis + 1]) \div 2
                mins2 == VecSet(mins, axis, dist)
                maxs1 == VecSet(maxs, axis, dist)
                c0 == SV_CreateworldSectorShallow(
                          [sectors EXCEPT ![anode].axis = axis, ![anode].dist = dist],
                          num + 1, depth + 1, mins2, maxs)
                c1 == SV_CreateworldSectorShallow(c0.sectors, c0.num, depth + 1, mins, maxs1)
            IN [sectors |-> [c1.sectors EXCEPT ![anode].children = <<c0.anode, c1.anode>>],
                num |-> c1.num, anode |-> anode]

\* Returns the array, the node count and the node built.  children[0] is
\* built first and holds the side above dist, children[1] the side below.
RECURSIVE SV_CreateworldSector(_, _, _, _, _)
SV_CreateworldSector(sectors, num, depth, mins, maxs) ==
    LET anode == num
    IN IF depth = AREA_DEPTH
       THEN [sectors |-> [sectors EXCEPT ![anode].axis = -1,
                                         ![anode].children = <<NULL, NULL>>],
             num |-> num + 1, anode |-> anode]
       ELSE LET axis == IF maxs[1] - mins[1] > maxs[2] - mins[2] THEN 0 ELSE 1
                dist == (maxs[axis + 1] + mins[axis + 1]) \div 2
                mins2 == VecSet(mins, axis, dist)
                maxs1 == VecSet(maxs, axis, dist)
                c0 == SV_CreateworldSector(
                          [sectors EXCEPT ![anode].axis = axis, ![anode].dist = dist],
                          num + 1, depth + 1, mins2, maxs)
                c1 == SV_CreateworldSector(c0.sectors, c0.num, depth + 1, mins, maxs1)
            IN [sectors |-> [c1.sectors EXCEPT ![anode].children = <<c0.anode, c1.anode>>],
                num |-> c1.num, anode |-> anode]

\* SV_ClearWorld for the bounds b = <<mins, maxs>> that CM_ModelBounds returns.
ClearWorldTree(b) ==
    SV_CreateworldSector([n \in Sectors |-> ZeroSector], 0, 0, b[1], b[2])

(***************************************************************************)
(* The entity store                                                        *)
(***************************************************************************)
\* An svEntity_t and the written part of an entityShared_t, zero-filled.
ZeroSvEntity ==
    [worldSector |-> NULL, nextEntityInWorldSector |-> NULL,
     numClusters |-> 0, clusternums |-> [i \in 0 .. (MAX_ENT_CLUSTERS - 1) |-> 0],
     lastCluster |-> 0, areanum |-> 0, areanum2 |-> 0]

ZeroGEntity == [linked |-> FALSE, absmin |-> vec3_origin, absmax |-> vec3_origin]

\* The state the link registry works on, as one value.
World(sectors, sv, g) == [sectors |-> sectors, sv |-> sv, g |-> g]

CurWorld == World(sv_worldSectors, svEntities, gEntities)

\* The chain of a sector: its entities from the head along
\* nextEntityInWorldSector, read for at most fuel links.
RECURSIVE Chain(_, _, _)
Chain(sv, ent, fuel) ==
    IF ent = NULL \/ fuel = 0 THEN <<>>
    ELSE <<ent>> \o Chain(sv, sv[ent].nextEntityInWorldSector, fuel - 1)

SectorChain(w, n) == Chain(w.sv, w.sectors[n].entities, NumEnts + 1)

(***************************************************************************)
(* SV_UnlinkEntity                                                         *)
(***************************************************************************)
\* The scan loop of SV_UnlinkEntity: the entity of the chain whose next is
\* ent, or NULL when the chain ends first.
RECURSIVE UnlinkScan(_, _, _, _)
UnlinkScan(sv, scan, ent, fuel) ==
    IF scan = NULL \/ fuel = 0 THEN NULL
    ELSE IF sv[scan].nextEntityInWorldSector = ent THEN scan
         ELSE UnlinkScan(sv, sv[scan].nextEntityInWorldSector, ent, fuel - 1)

\* SV_UnlinkEntity with the head case leaving ws->entities as it is.
UnlinkEntityKeepHead(w, ent) ==
    LET g1 == [w.g EXCEPT ![ent].linked = FALSE]
        ws == w.sv[ent].worldSector
        next == w.sv[ent].nextEntityInWorldSector
        sv1 == [w.sv EXCEPT ![ent].worldSector = NULL]
    IN IF ws = NULL
       THEN World(w.sectors, w.sv, g1)
       ELSE IF w.sectors[ws].entities = ent
            THEN World(w.sectors, sv1, g1)
            ELSE LET scan == UnlinkScan(sv1, w.sectors[ws].entities, ent, NumEnts + 1)
                 IN IF scan # NULL
                    THEN World(w.sectors,
                               [sv1 EXCEPT ![scan].nextEntityInWorldSector = next], g1)
                    ELSE World(w.sectors, sv1, g1)

\* SV_UnlinkEntity without gEnt->r->linked = qfalse.
UnlinkEntityKeepFlag(w, ent) ==
    LET ws == w.sv[ent].worldSector
        next == w.sv[ent].nextEntityInWorldSector
        sv1 == [w.sv EXCEPT ![ent].worldSector = NULL]
    IN IF ws = NULL
       THEN w
       ELSE IF w.sectors[ws].entities = ent
            THEN World([w.sectors EXCEPT ![ws].entities = next], sv1, w.g)
            ELSE LET scan == UnlinkScan(sv1, w.sectors[ws].entities, ent, NumEnts + 1)
                 IN IF scan # NULL
                    THEN World(w.sectors,
                               [sv1 EXCEPT ![scan].nextEntityInWorldSector = next], w.g)
                    ELSE World(w.sectors, sv1, w.g)

\* SV_UnlinkEntity with the head case emptying the chain.
UnlinkEntityHeadEmpties(w, ent) ==
    LET g1 == [w.g EXCEPT ![ent].linked = FALSE]
        ws == w.sv[ent].worldSector
        next == w.sv[ent].nextEntityInWorldSector
        sv1 == [w.sv EXCEPT ![ent].worldSector = NULL]
    IN IF ws = NULL
       THEN World(w.sectors, w.sv, g1)
       ELSE IF w.sectors[ws].entities = ent
            THEN World([w.sectors EXCEPT ![ws].entities = NULL], sv1, g1)
            ELSE LET scan == UnlinkScan(sv1, w.sectors[ws].entities, ent, NumEnts + 1)
                 IN IF scan # NULL
                    THEN World(w.sectors,
                               [sv1 EXCEPT ![scan].nextEntityInWorldSector = next], g1)
                    ELSE World(w.sectors, sv1, g1)

\* SV_UnlinkEntity with ent->worldSector = NULL only where ent is found.
UnlinkEntityFoundOnly(w, ent) ==
    LET g1 == [w.g EXCEPT ![ent].linked = FALSE]
        ws == w.sv[ent].worldSector
        next == w.sv[ent].nextEntityInWorldSector
        sv1 == [w.sv EXCEPT ![ent].worldSector = NULL]
    IN IF ws = NULL
       THEN World(w.sectors, w.sv, g1)
       ELSE IF w.sectors[ws].entities = ent
            THEN World([w.sectors EXCEPT ![ws].entities = next], sv1, g1)
            ELSE LET scan == UnlinkScan(sv1, w.sectors[ws].entities, ent, NumEnts + 1)
                 IN IF scan # NULL
                    THEN World(w.sectors,
                               [sv1 EXCEPT ![scan].nextEntityInWorldSector = next], g1)
                    ELSE World(w.sectors, w.sv, g1)

UnlinkEntity(w, ent) ==
    LET g1 == [w.g EXCEPT ![ent].linked = FALSE]
        ws == w.sv[ent].worldSector
        next == w.sv[ent].nextEntityInWorldSector
        sv1 == [w.sv EXCEPT ![ent].worldSector = NULL]
    IN IF ws = NULL
       THEN World(w.sectors, w.sv, g1)
       ELSE IF w.sectors[ws].entities = ent
            THEN World([w.sectors EXCEPT ![ws].entities = next], sv1, g1)
            ELSE LET scan == UnlinkScan(sv1, w.sectors[ws].entities, ent, NumEnts + 1)
                 IN IF scan # NULL
                    THEN World(w.sectors,
                               [sv1 EXCEPT ![scan].nextEntityInWorldSector = next], g1)
                    ELSE World(w.sectors, sv1, g1)   \* WARNING: not found in worldSector

(***************************************************************************)
(* SV_LinkEntity                                                           *)
(***************************************************************************)
\* The collision map's leaves: leaf 0 is outside every area and cluster.
CM_LeafArea(leaf) == IF leaf = 0 THEN -1 ELSE (leaf - 1) \div 2

CM_LeafCluster(leaf) == leaf - 1

\* absmin and absmax of an entity with these r.mins, r.maxs, currentOrigin,
\* currentAngles and bmodel flag.
AbsBox(in) ==
    LET box == IF in.bmodel /\ in.angles # vec3_origin
               THEN LET max == RadiusFromBounds(in.mins, in.maxs)
                    IN <<VectorAdd(in.origin, <<0 - max, 0 - max, 0 - max>>),
                         VectorAdd(in.origin, <<max, max, max>>)>>
               ELSE <<VectorAdd(in.origin, in.mins), VectorAdd(in.origin, in.maxs)>>
    IN <<VectorAdd(box[1], <<-1, -1, -1>>), VectorAdd(box[2], <<1, 1, 1>>)>>

\* The area loop over leafs[i .. num_leafs - 1]; a is <<areanum, areanum2>>.
RECURSIVE SetAreas(_, _, _)
SetAreas(leafs, i, a) ==
    IF i > Len(leafs) THEN a
    ELSE LET area == CM_LeafArea(leafs[i])
         IN IF area = -1 THEN SetAreas(leafs, i + 1, a)
            ELSE IF a[1] # -1 /\ a[1] # area
                 THEN SetAreas(leafs, i + 1, <<a[1], area>>)
                 ELSE SetAreas(leafs, i + 1, <<area, a[2]>>)

\* The cluster loop from leafs[i]; returns the array, numClusters and the
\* value of the loop index (counted from 0) when the loop ends.
RECURSIVE StoreClusters(_, _, _, _)
StoreClusters(leafs, i, nums, n) ==
    IF i >= Len(leafs) THEN [clusternums |-> nums, numClusters |-> n, i |-> i]
    ELSE LET cluster == CM_LeafCluster(leafs[i + 1])
         IN IF cluster = -1 THEN StoreClusters(leafs, i + 1, nums, n)
            ELSE IF n + 1 = MAX_ENT_CLUSTERS
                 THEN [clusternums |-> [nums EXCEPT ![n] = cluster],
                       numClusters |-> n + 1, i |-> i]
                 ELSE StoreClusters(leafs, i + 1, [nums EXCEPT ![n] = cluster], n + 1)

\* The descent of SV_LinkEntity with children[0] and children[1] exchanged.
RECURSIVE FindSectorSwapped(_, _, _, _)
FindSectorSwapped(sectors, node, absmin, absmax) ==
    IF sectors[node].axis = -1 THEN node
    ELSE IF absmin[sectors[node].axis + 1] > sectors[node].dist
         THEN FindSectorSwapped(sectors, sectors[node].children[2], absmin, absmax)
         ELSE IF absmax[sectors[node].axis + 1] < sectors[node].dist
              THEN FindSectorSwapped(sectors, sectors[node].children[1], absmin, absmax)
              ELSE node

\* The first sector that the box crosses, or the leaf it falls into.
RECURSIVE FindSector(_, _, _, _)
FindSector(sectors, node, absmin, absmax) ==
    IF sectors[node].axis = -1 THEN node
    ELSE IF absmin[sectors[node].axis + 1] > sectors[node].dist
         THEN FindSector(sectors, sectors[node].children[1], absmin, absmax)
         ELSE IF absmax[sectors[node].axis + 1] < sectors[node].dist
              THEN FindSector(sectors, sectors[node].children[2], absmin, absmax)
              ELSE node

\* The first part of SV_LinkEntity without the call of SV_UnlinkEntity.
LinkResetNoUnlink(w, ent, in) ==
    LET box == AbsBox(in)
    IN World(w.sectors,
             [w.sv EXCEPT ![ent].numClusters = 0, ![ent].lastCluster = 0,
                          ![ent].areanum = -1, ![ent].areanum2 = -1],
             [w.g EXCEPT ![ent].absmin = box[1], ![ent].absmax = box[2]])

\* in: r.mins, r.maxs, currentOrigin, currentAngles, bmodel, and what
\* CM_BoxLeafnums answers for the box: leafs (num_leafs of them) and lastLeaf.
\* The first part of SV_LinkEntity, up to the call of CM_BoxLeafnums: unlink
\* from the old position, set the abs box, reset the cluster and area fields.
LinkReset(w, ent, in) ==
    LET w1 == IF w.sv[ent].worldSector # NULL THEN UnlinkEntity(w, ent) ELSE w
        box == AbsBox(in)
    IN World(w1.sectors,
             [w1.sv EXCEPT ![ent].numClusters = 0, ![ent].lastCluster = 0,
                           ![ent].areanum = -1, ![ent].areanum2 = -1],
             [w1.g EXCEPT ![ent].absmin = box[1], ![ent].absmax = box[2]])

\* The rest of SV_LinkEntity once a leaf was found: areas, clusters, the
\* sector, the push onto its chain and the linked flag.
LinkStore(w, ent, in) ==
    LET a == SetAreas(in.leafs, 1, <<-1, -1>>)
        c == StoreClusters(in.leafs, 0, w.sv[ent].clusternums, 0)
        last == IF c.i # Len(in.leafs) THEN CM_LeafCluster(in.lastLeaf) ELSE 0
        node == FindSector(w.sectors, 0, w.g[ent].absmin, w.g[ent].absmax)
    IN World([w.sectors EXCEPT ![node].entities = ent],
             [w.sv EXCEPT ![ent].areanum = a[1], ![ent].areanum2 = a[2],
                          ![ent].clusternums = c.clusternums,
                          ![ent].numClusters = c.numClusters,
                          ![ent].lastCluster = last,
                          ![ent].worldSector = node,
                          ![ent].nextEntityInWorldSector = w.sectors[node].entities],
             [w.g EXCEPT ![ent].linked = TRUE])

\* SV_LinkEntity with linked = qtrue set before the return on no leaf.
LinkEntityEarlyFlag(w, ent, in) ==
    LET w2 == LinkReset(w, ent, in)
    IN IF Len(in.leafs) = 0
       THEN World(w2.sectors, w2.sv, [w2.g EXCEPT ![ent].linked = TRUE])
       ELSE LinkStore(w2, ent, in)

LinkEntity(w, ent, in) ==
    LET w2 == LinkReset(w, ent, in)
    IN IF Len(in.leafs) = 0 THEN w2 ELSE LinkStore(w2, ent, in)

(***************************************************************************)
(* SV_AreaEntities                                                         *)
(***************************************************************************)
\* The entity's box and the query box are apart on some axis.
Apart(g, ent, mins, maxs) ==
    \E i \in 1 .. 3 : g[ent].absmin[i] > maxs[i] \/ g[ent].absmax[i] < mins[i]

\* The chain loop of SV_AreaEntities_r without the return on count == maxcount.
RECURSIVE AreaChainNoCap(_, _, _, _)
AreaChainNoCap(w, check, ap, fuel) ==
    IF check = NULL \/ fuel = 0 THEN [ap |-> ap, full |-> FALSE]
    ELSE LET next == w.sv[check].nextEntityInWorldSector
         IN IF Apart(w.g, check, ap.mins, ap.maxs) THEN AreaChainNoCap(w, next, ap, fuel - 1)
            ELSE AreaChainNoCap(w, next, [ap EXCEPT !.list = Append(@, check)], fuel - 1)

\* The loop of SV_AreaEntities_r over a sector's chain from check on.  ap
\* holds mins, maxs, maxcount and the list written so far (count is its
\* length); full says that the loop returned on count == maxcount.
RECURSIVE AreaChain(_, _, _, _)
AreaChain(w, check, ap, fuel) ==
    IF check = NULL \/ fuel = 0 THEN [ap |-> ap, full |-> FALSE]
    ELSE LET next == w.sv[check].nextEntityInWorldSector
         IN IF Apart(w.g, check, ap.mins, ap.maxs) THEN AreaChain(w, next, ap, fuel - 1)
            ELSE IF Len(ap.list) = ap.maxcount
                 THEN [ap |-> [ap EXCEPT !.maxed = TRUE], full |-> TRUE]
                 ELSE AreaChain(w, next, [ap EXCEPT !.list = Append(@, check)], fuel - 1)

\* SV_AreaEntities_r with "else if" for the second child.
RECURSIVE SV_AreaEntities_rOneBranch(_, _, _)
SV_AreaEntities_rOneBranch(w, node, ap) ==
    LET r == AreaChain(w, w.sectors[node].entities, ap, NumEnts + 1)
        axis == w.sectors[node].axis
    IN IF r.full \/ axis = -1 THEN r.ap
       ELSE IF ap.maxs[axis + 1] > w.sectors[node].dist
            THEN SV_AreaEntities_rOneBranch(w, w.sectors[node].children[1], r.ap)
            ELSE IF ap.mins[axis + 1] < w.sectors[node].dist
                 THEN SV_AreaEntities_rOneBranch(w, w.sectors[node].children[2], r.ap)
                 ELSE r.ap

RECURSIVE SV_AreaEntities_r(_, _, _)
SV_AreaEntities_r(w, node, ap) ==
    LET r == AreaChain(w, w.sectors[node].entities, ap, NumEnts + 1)
        axis == w.sectors[node].axis
    IN IF r.full \/ axis = -1 THEN r.ap
       ELSE LET ap1 == IF ap.maxs[axis + 1] > w.sectors[node].dist
                       THEN SV_AreaEntities_r(w, w.sectors[node].children[1], r.ap)
                       ELSE r.ap
            IN IF ap.mins[axis + 1] < w.sectors[node].dist
               THEN SV_AreaEntities_r(w, w.sectors[node].children[2], ap1)
               ELSE ap1

\* Returns entityList (count entries) and whether MAXCOUNT was printed.
AreaEntities(w, mins, maxs, maxcount) ==
    SV_AreaEntities_r(w, 0, [mins |-> mins, maxs |-> maxs, list |-> <<>>,
                             maxcount |-> maxcount, maxed |-> FALSE])

(***************************************************************************)
(* SV_Trace and SV_ClipMoveToEntities                                      *)
(***************************************************************************)
\* Content flags, as sets of bit names.  TRANSLUCENT is the sign bit of the
\* int, so contents > 0 holds for a non-empty set without it.
MASK_SHOT == {"SOLID", "BODY", "CORPSE"}
CONTENTS_LIGHTSABER == {"LIGHTSABER"}
CONTENTS_NOSHOT == {"NOSHOT"}
CONTENTS_SIGN == {"TRANSLUCENT"}

Positive(contents) == contents # {} /\ contents \cap CONTENTS_SIGN = {}

IsShotMask(contentmask) ==
    contentmask = MASK_SHOT \cup CONTENTS_LIGHTSABER \/ contentmask = MASK_SHOT

\* Fractions are counted in steps of 1 / FracOne: FracOne is 1.0.
FracOne == 3

\* What SV_ClipHandleForEntity hands to the collision map for an entity.
SV_ClipHandleForEntity(t) ==
    IF t.bmodel THEN "inline" ELSE IF t.capsule THEN "capsule" ELSE "box"

\* A trace_t: the flags and fraction, entityNum, and for the rest of the
\* struct (endpos, plane, ...) the answer it was copied from: from is
\* ENTITYNUM_WORLD or the entity clipped against, g2 says that endpos and
\* the plane normal were replaced by a Ghoul2 collision.
trace_t(fraction, startsolid, allsolid, entityNum, from) ==
    [fraction |-> fraction, startsolid |-> startsolid, allsolid |-> allsolid,
     entityNum |-> entityNum, from |-> from, g2 |-> FALSE]

\* trace_t oldTrace = {0}
ZeroTrace == trace_t(0, FALSE, FALSE, 0, 0)

\* passOwnerNum and thisOwnerShared as SV_ClipMoveToEntities sets them.
PassOwnerNum(in) ==
    IF in.passEntityNum # ENTITYNUM_NONE
          /\ in.attrs[in.passEntityNum].ownerNum # ENTITYNUM_NONE
    THEN in.attrs[in.passEntityNum].ownerNum
    ELSE -1

ThisOwnerShared(in) ==
    IF in.passEntityNum # ENTITYNUM_NONE
    THEN ~in.attrs[in.passEntityNum].ownerNotShared
    ELSE TRUE

\* The ownership filter with the same-owner rule not reading thisOwnerShared.
OwnerFilteredNoShare(in, touchNum) ==
    LET t == in.attrs[touchNum]
    IN /\ in.passEntityNum # ENTITYNUM_NONE
       /\ \/ touchNum = in.passEntityNum
          \/ /\ t.ownerNum = in.passEntityNum
             /\ IF t.ownerNotShared THEN ~IsShotMask(in.contentmask) ELSE TRUE
          \/ /\ t.ownerNum = PassOwnerNum(in)
             /\ ~t.ownerNotShared
          \/ /\ t.missile
             /\ ~t.ownerNotShared
             /\ t.ownerNum = PassOwnerNum(in)

\* The ownership filter with the missile rule not reading SVF_OWNERNOTSHARED.
OwnerFilteredAnyMissile(in, touchNum) ==
    LET t == in.attrs[touchNum]
    IN /\ in.passEntityNum # ENTITYNUM_NONE
       /\ \/ touchNum = in.passEntityNum
          \/ /\ t.ownerNum = in.passEntityNum
             /\ IF t.ownerNotShared THEN ~IsShotMask(in.contentmask) ELSE TRUE
          \/ /\ t.ownerNum = PassOwnerNum(in)
             /\ ~t.ownerNotShared
             /\ ThisOwnerShared(in)
          \/ /\ t.missile
             /\ t.ownerNum = PassOwnerNum(in)

\* "see if we should ignore this entity": the pass entity, its missiles,
\* and the other missiles of its owner.
OwnerFiltered(in, touchNum) ==
    LET t == in.attrs[touchNum]
    IN /\ in.passEntityNum # ENTITYNUM_NONE
       /\ \/ touchNum = in.passEntityNum
          \/ /\ t.ownerNum = in.passEntityNum
             /\ IF t.ownerNotShared THEN ~IsShotMask(in.contentmask) ELSE TRUE
          \/ /\ t.ownerNum = PassOwnerNum(in)
             /\ ~t.ownerNotShared
             /\ ThisOwnerShared(in)
          \/ /\ t.missile
             /\ ~t.ownerNotShared
             /\ t.ownerNum = PassOwnerNum(in)

\* The two content checks before the exact clip.
ContentSkipped(in, touchNum) ==
    LET t == in.attrs[touchNum]
    IN \/ in.contentmask \cap t.contents = {}
       \/ /\ IsShotMask(in.contentmask)
          /\ Positive(t.contents)
          /\ t.contents \cap CONTENTS_NOSHOT # {}

\* The merge with an allsolid answer only setting the flag.
AggregateFlagOnly(ct, tr, num) ==
    LET ct1 == IF tr.allsolid THEN [ct EXCEPT !.allsolid = TRUE]
               ELSE IF tr.startsolid
                    THEN [ct EXCEPT !.startsolid = TRUE, !.entityNum = num]
                    ELSE ct
        tr1 == IF tr.allsolid \/ tr.startsolid THEN [tr EXCEPT !.entityNum = num] ELSE tr
    IN IF ~tr.allsolid /\ tr1.fraction < ct1.fraction
       THEN LET tr2 == [tr1 EXCEPT !.entityNum = num]
            IN [clip |-> [tr2 EXCEPT !.startsolid = tr2.startsolid \/ ct1.startsolid],
                trace |-> tr2]
       ELSE [clip |-> ct1, trace |-> tr1]

\* Lines 632-652: merge the candidate's trace tr into clip->trace ct.
\* Returns the new clip->trace and the local trace.
Aggregate(ct, tr, num) ==
    LET ct1 == IF tr.allsolid THEN [ct EXCEPT !.allsolid = TRUE]
               ELSE IF tr.startsolid
                    THEN [ct EXCEPT !.startsolid = TRUE, !.entityNum = num]
                    ELSE ct
        tr1 == IF tr.allsolid \/ tr.startsolid THEN [tr EXCEPT !.entityNum = num] ELSE tr
    IN IF tr1.fraction < ct1.fraction
       THEN LET tr2 == [tr1 EXCEPT !.entityNum = num]
            IN [clip |-> [tr2 EXCEPT !.startsolid = tr2.startsolid \/ ct1.startsolid],
                trace |-> tr2]
       ELSE [clip |-> ct1, trace |-> tr1]

\* The Ghoul2 check after the merge: ag is what Aggregate returned.
Ghoul2Check(in, touchNum, ag, oldTrace) ==
    LET t == in.attrs[touchNum]
    IN IF /\ in.doGhoulTrace
          /\ ag.trace.entityNum = touchNum
          /\ t.ghoul2
          /\ (in.hitCorpses \/ ~t.dead)
       THEN IF in.g2hit[touchNum] THEN [ag.clip EXCEPT !.g2 = TRUE] ELSE oldTrace
       ELSE ag.clip

\* One pass of the loop body for a candidate that is clipped against.  st
\* holds clip->trace, oldTrace and the log of the calls made.
ClipToCandidate(in, touchNum, st) ==
    LET a == in.entTrace[touchNum]
        tr == trace_t(a.fraction, a.startsolid, a.allsolid, a.entityNum, touchNum)
        oldTrace == IF in.doGhoulTrace THEN st.trace ELSE st.oldTrace
        ag == Aggregate(st.trace, tr, touchNum)
    IN [st EXCEPT !.trace = Ghoul2Check(in, touchNum, ag, oldTrace),
                  !.oldTrace = oldTrace,
                  !.tested = Append(@, <<touchNum, SV_ClipHandleForEntity(in.attrs[touchNum])>>)]

RECURSIVE ClipLoop(_, _, _, _)
ClipLoop(in, touchlist, i, st) ==
    IF i > Len(touchlist) \/ st.trace.allsolid THEN st
    ELSE IF OwnerFiltered(in, touchlist[i])
         THEN ClipLoop(in, touchlist, i + 1, [st EXCEPT !.filtered = Append(@, touchlist[i])])
         ELSE IF ContentSkipped(in, touchlist[i])
              THEN ClipLoop(in, touchlist, i + 1, [st EXCEPT !.skipped = Append(@, touchlist[i])])
              ELSE ClipLoop(in, touchlist, i + 1, ClipToCandidate(in, touchlist[i], st))

\* The box of the entire move.
MoveBox(in) ==
    LET lo(i) == IF in.end[i] > in.start[i] THEN in.start[i] + in.mins[i] - 1
                                             ELSE in.end[i] + in.mins[i] - 1
        hi(i) == IF in.end[i] > in.start[i] THEN in.end[i] + in.maxs[i] + 1
                                             ELSE in.start[i] + in.maxs[i] + 1
    IN << <<lo(1), lo(2), lo(3)>>, <<hi(1), hi(2), hi(3)>> >>

SV_ClipMoveToEntities(w, in, st) ==
    LET box == MoveBox(in)
        touchlist == AreaEntities(w, box[1], box[2], MAX_GENTITIES).list
    IN ClipLoop(in, touchlist, 1, [st EXCEPT !.touchlist = touchlist, !.areaQueried = TRUE])

\* SV_Trace without the return on a world fraction of 0.
TraceNoEarlyReturn(w, in) ==
    LET wt == in.worldTrace
        st == [trace |-> trace_t(wt.fraction, wt.startsolid, wt.allsolid,
                               IF wt.fraction # FracOne THEN ENTITYNUM_WORLD
                                                        ELSE ENTITYNUM_NONE,
                               ENTITYNUM_WORLD),
               oldTrace |-> ZeroTrace, areaQueried |-> FALSE, touchlist |-> <<>>,
               filtered |-> <<>>, skipped |-> <<>>, tested |-> <<>>]
    IN SV_ClipMoveToEntities(w, in, st)

\* in: the arguments, the entity fields read (attrs), and the answers of
\* the collision map (worldTrace, entTrace) and of Ghoul2 (g2hit).
\* Returns the result with the log of what was queried and clipped.
Trace(w, in) ==
    LET wt == in.worldTrace
        st == [trace |-> trace_t(wt.fraction, wt.startsolid, wt.allsolid,
                               IF wt.fraction # FracOne THEN ENTITYNUM_WORLD
                                                        ELSE ENTITYNUM_NONE,
                               ENTITYNUM_WORLD),
               oldTrace |-> ZeroTrace, areaQueried |-> FALSE, touchlist |-> <<>>,
               filtered |-> <<>>, skipped |-> <<>>, tested |-> <<>>]
    IN IF wt.fraction = 0 THEN st ELSE SV_ClipMoveToEntities(w, in, st)

(***************************************************************************)
(* SV_PointContents                                                        *)
(***************************************************************************)
\* The loop of SV_PointContents with "contents = c2" for "contents |= c2".
RECURSIVE PointLoopAssign(_, _, _, _)
PointLoopAssign(in, touch, i, contents) ==
    IF i > Len(touch) THEN contents
    ELSE IF touch[i] = in.passEntityNum THEN PointLoopAssign(in, touch, i + 1, contents)
         ELSE PointLoopAssign(in, touch, i + 1, in.entContents[touch[i]])

RECURSIVE PointLoop(_, _, _, _)
PointLoop(in, touch, i, contents) ==
    IF i > Len(touch) THEN contents
    ELSE IF touch[i] = in.passEntityNum THEN PointLoop(in, touch, i + 1, contents)
         ELSE PointLoop(in, touch, i + 1, contents \cup in.entContents[touch[i]])

\* in: p, passEntityNum, and the answers of CM_PointContents (worldContents)
\* and of CM_TransformedPointContents for each entity (entContents).
PointContents(w, in) ==
    PointLoop(in, AreaEntities(w, in.p, in.p, MAX_GENTITIES).list, 1, in.worldContents)

(***************************************************************************)
(* Inputs                                                                  *)
(***************************************************************************)
\* Map bounds that CM_ModelBounds may report: a square map and a wide one.
MapSquare == << <<0, 0, 0>>, <<16, 16, 8>> >>
MapWide == << <<0, 0, 0>>, <<32, 16, 8>> >>

WorldBounds == {MapSquare}

Pose(origin, mins, maxs, bmodel, angles) ==
    [origin |-> origin, mins |-> mins, maxs |-> maxs, bmodel |-> bmodel, angles |-> angles]

\* Entity placements: inside one leaf cell, touching a split plane, a rotated
\* brush model across the root split, a box sticking out of the map, and a
\* point far outside the map.
PoseLeaf == Pose(<<2, 2, 4>>, vec3_origin, vec3_origin, FALSE, vec3_origin)
PoseTouch == Pose(<<3, 2, 4>>, vec3_origin, vec3_origin, FALSE, vec3_origin)
PoseCross == Pose(<<8, 8, 4>>, <<-2, -1, -2>>, <<2, 1, 2>>, TRUE, <<0, 90, 0>>)
PoseOut == Pose(<<15, 15, 6>>, <<-1, -1, -1>>, <<1, 1, 1>>, FALSE, vec3_origin)
PoseFar == Pose(<<40, 40, 4>>, vec3_origin, vec3_origin, FALSE, vec3_origin)

LinkInput(pose, leafs, lastLeaf) ==
    [origin |-> pose.origin, mins |-> pose.mins, maxs |-> pose.maxs,
     bmodel |-> pose.bmodel, angles |-> pose.angles,
     leafs |-> leafs, lastLeaf |-> lastLeaf]

\* CM_BoxLeafnums finds two leaves for a box that touches the map and none
\* for the box far outside it.
LinkInputs ==
    {LinkInput(p, <<1, 3>>, 3) : p \in {PoseLeaf, PoseTouch, PoseCross, PoseOut}}
        \cup {LinkInput(PoseFar, <<>>, 0)}

NoCall == [op |-> "none"]

(***************************************************************************)
(* Actions                                                                 *)
(***************************************************************************)
SetWorld(w) ==
    /\ sv_worldSectors' = w.sectors
    /\ svEntities' = w.sv
    /\ gEntities' = w.g

\* SV_ClearWorld without the Com_Memset of sv_worldSectors: the sectors
\* are rebuilt over the old array.
ClearWorldNoMemset(w, b) ==
    LET t == ClearWorldTree(b)
    IN World([n \in Sectors |-> [t.sectors[n] EXCEPT !.entities = w.sectors[n].entities]],
             w.sv, w.g)

\* The registry after SV_ClearWorld: the sectors are zeroed and rebuilt, the
\* entities are not written.
ClearWorld(w, b) == World(ClearWorldTree(b).sectors, w.sv, w.g)

SV_ClearWorld(b) ==
    LET t == ClearWorldTree(b)
    IN /\ sv_worldSectors' = ClearWorld(CurWorld, b).sectors
       /\ sv_numworldSectors' = t.num
       /\ cm_modelBounds' = b
       /\ ret' = NoCall
       /\ UNCHANGED <<svEntities, gEntities>>

SV_UnlinkEntity(ent) ==
    /\ SetWorld(UnlinkEntity(CurWorld, ent))
    /\ ret' = NoCall
    /\ UNCHANGED <<sv_numworldSectors, cm_modelBounds>>

SV_LinkEntity(ent, in) ==
    /\ SetWorld(LinkEntity(CurWorld, ent, in))
    /\ ret' = NoCall
    /\ UNCHANGED <<sv_numworldSectors, cm_modelBounds>>

\* The server after SV_ClearWorld on a freshly loaded map: no entity has
\* been linked yet.
Init ==
    \E b \in WorldBounds :
        LET t == ClearWorldTree(b)
        IN /\ sv_worldSectors = t.sectors
           /\ sv_numworldSectors = t.num
           /\ cm_modelBounds = b
           /\ svEntities = [e \in Ents |-> ZeroSvEntity]
           /\ gEntities = [e \in Ents |-> ZeroGEntity]
           /\ ret = NoCall

ClearWorldStep == \E b \in WorldBounds : SV_ClearWorld(b)

UnlinkStep == \E ent \in Ents : SV_UnlinkEntity(ent)

LinkStep == \E ent \in Ents, in \in LinkInputs : SV_LinkEntity(ent, in)

Next ==
    \/ ClearWorldStep
    \/ UnlinkStep
    \/ LinkStep

Spec == Init /\ [][Next]_vars

(***************************************************************************)
(* The queries on a registry: two maps, entities that find their leaves    *)
(***************************************************************************)
QueryLinkInputs ==
    {LinkInput(p, <<1, 3>>, 3) : p \in {PoseLeaf, PoseCross, PoseOut}}

\* Query boxes of the query actions.
QueryBoxes ==
    {<< <<0, 0, 0>>, <<20, 20, 8>> >>, << <<3, 3, 5>>, <<4, 4, 6>> >>}

QueryCaps == {1, MAX_GENTITIES}

SV_AreaEntities(mins, maxs, maxcount) ==
    LET ap == AreaEntities(CurWorld, mins, maxs, maxcount)
    IN /\ ret' = [op |-> "SV_AreaEntities", mins |-> mins, maxs |-> maxs,
                  maxcount |-> maxcount, list |-> ap.list, count |-> Len(ap.list),
                  maxed |-> ap.maxed]
       /\ UNCHANGED world

\* Content bits by which the answers of CM_TransformedPointContents differ
\* from entity to entity.
BitNames == <<"BODY", "CORPSE", "TRIGGER", "LIGHTSABER", "NOSHOT", "TRANSLUCENT">>

OwnBit == [e \in Ents |-> {BitNames[e + 1]}]

PassNums == Ents \cup {ENTITYNUM_NONE}

PointInput(p, passEntityNum, worldContents, entContents) ==
    [p |-> p, passEntityNum |-> passEntityNum, worldContents |-> worldContents,
     entContents |-> entContents]

SV_PointContents(in) ==
    /\ ret' = [op |-> "SV_PointContents", in |-> in,
               contents |-> PointContents(CurWorld, in)]
    /\ UNCHANGED world

QueryInit ==
    \E b \in {MapWide} :
        LET t == ClearWorldTree(b)
        IN /\ sv_worldSectors = t.sectors
           /\ sv_numworldSectors = t.num
           /\ cm_modelBounds = b
           /\ svEntities = [e \in Ents |-> ZeroSvEntity]
           /\ gEntities = [e \in Ents |-> ZeroGEntity]
           /\ ret = NoCall

QueryLinkStep == \E ent \in Ents, in \in QueryLinkInputs : SV_LinkEntity(ent, in)

AreaEntitiesStep ==
    \E box \in QueryBoxes, maxcount \in QueryCaps : SV_AreaEntities(box[1], box[2], maxcount)

PointContentsStep ==
    \E p \in {<<4, 4, 4>>}, passEntityNum \in PassNums :
        SV_PointContents(PointInput(p, passEntityNum, {"SOLID"}, OwnBit))

QueryNext ==
    \/ QueryLinkStep
    \/ UnlinkStep
    \/ AreaEntitiesStep
    \/ PointContentsStep

SpecQuery == QueryInit /\ [][QueryNext]_vars

(***************************************************************************)
(* The traces: link, unlink and SV_Trace                                   *)
(***************************************************************************)
TraceLinkInputs == {LinkInput(p, <<1, 3>>, 3) : p \in {PoseLeaf, PoseCross}}

\* Entity fields that SV_ClipMoveToEntities reads.
Attr(missile, ownerNum, ownerNotShared, contents, ghoul2) ==
    [bmodel |-> FALSE, capsule |-> FALSE, ownerNotShared |-> ownerNotShared,
     contents |-> contents, ownerNum |-> ownerNum, missile |-> missile,
     ghoul2 |-> ghoul2, dead |-> FALSE]

PlainAttr == Attr(FALSE, ENTITYNUM_NONE, FALSE, {"SOLID"}, FALSE)

\* An answer of the collision map: CM_Trace leaves entityNum at
\* ENTITYNUM_WORLD when something was hit and at ENTITYNUM_NONE otherwise.
Answer(fraction, startsolid, allsolid) ==
    [fraction |-> fraction, startsolid |-> startsolid, allsolid |-> allsolid,
     entityNum |-> IF fraction # FracOne THEN ENTITYNUM_WORLD ELSE ENTITYNUM_NONE]

Clear == Answer(FracOne, FALSE, FALSE)

\* A move from one corner of the map to the other with a point-sized box.
TraceInput(passEntityNum, contentmask, doGhoulTrace, worldTrace, attrs, entTrace, g2hit) ==
    [passEntityNum |-> passEntityNum, contentmask |-> contentmask,
     doGhoulTrace |-> doGhoulTrace, hitCorpses |-> FALSE, worldTrace |-> worldTrace,
     start |-> <<0, 0, 0>>, end |-> <<16, 16, 8>>, mins |-> vec3_origin,
     maxs |-> vec3_origin, attrs |-> attrs, entTrace |-> entTrace, g2hit |-> g2hit]

NoG2 == [e \in Ents |-> FALSE]

\* Entity 0 answers a hit at 1 / FracOne, entity 1 a later hit that starts
\* inside it.
TwoHits == [e \in Ents |-> IF e = 0 THEN Answer(1, FALSE, FALSE)
                           ELSE IF e = 1 THEN Answer(2, TRUE, FALSE) ELSE Clear]

\* Entity 0 is a missile of an owner outside the modelled entities with
\* SVF_OWNERNOTSHARED, the others are missiles of the same owner without it.
Siblings == [e \in Ents |-> Attr(TRUE, NumEnts, e = 0, {"SOLID"}, FALSE)]

\* The calls of SV_Trace that the trace action makes.
TraceInputs ==
    {TraceInput(ENTITYNUM_NONE, {"SOLID"}, FALSE, Answer(0, TRUE, TRUE),
                [e \in Ents |-> PlainAttr], [e \in Ents |-> Clear], NoG2),
     TraceInput(ENTITYNUM_NONE, {"SOLID"}, FALSE, Clear,
                [e \in Ents |-> PlainAttr], TwoHits, NoG2),
     TraceInput(ENTITYNUM_NONE, {"SOLID"}, TRUE, Answer(2, FALSE, FALSE),
                [e \in Ents |-> Attr(FALSE, ENTITYNUM_NONE, FALSE, {"SOLID"}, TRUE)],
                [e \in Ents |-> Answer(e, e = 0, e = 0)], NoG2),
     TraceInput(0, MASK_SHOT, FALSE, Clear, Siblings,
                [e \in Ents |-> Answer(1, FALSE, FALSE)], NoG2)}

SV_Trace(in) ==
    LET r == Trace(CurWorld, in)
    IN /\ ret' = [op |-> "SV_Trace", in |-> in, results |-> r.trace,
                  areaQueried |-> r.areaQueried, touchlist |-> r.touchlist,
                  filtered |-> r.filtered, skipped |-> r.skipped, tested |-> r.tested]
       /\ UNCHANGED world

TraceLinkStep == \E ent \in Ents, in \in TraceLinkInputs : SV_LinkEntity(ent, in)

TraceStep == \E in \in TraceInputs : SV_Trace(in)

TraceNext ==
    \/ TraceLinkStep
    \/ UnlinkStep
    \/ TraceStep

SpecTrace == Init /\ [][TraceNext]_vars

(***************************************************************************)
(* The candidate checks: SV_Trace on a registry with every entity linked   *)
(***************************************************************************)
\* The registry after SV_LinkEntity on the entities e, e + step, ... at the
\* place of PoseCross.
RECURSIVE LinkAll(_, _, _)
LinkAll(w, e, step) ==
    IF e \notin Ents THEN w
    ELSE LinkAll(LinkEntity(w, e, LinkInput(PoseCross, <<1, 3>>, 3)), e + step, step)

\* ownerNum values: the entities, an entity number beyond the modelled
\* ones, and ENTITYNUM_NONE.
OwnerNums == Ents \cup {NumEnts, ENTITYNUM_NONE}

FilterAttrs ==
    {Attr(missile, ownerNum, ownerNotShared, {"SOLID", "BODY"}, FALSE) :
        missile \in BOOLEAN, ownerNum \in OwnerNums, ownerNotShared \in BOOLEAN}

FilterMasks == {MASK_SHOT, MASK_SHOT \cup CONTENTS_LIGHTSABER, {"SOLID"}, {"BODY", "TRIGGER"}}

\* r.contents values: none, bits in and outside the masks, CONTENTS_NOSHOT
\* alone and with other bits, the sign bit among them.
ContentSets ==
    {{}, {"SOLID"}, {"TRIGGER"}, {"NOSHOT"}, {"BODY", "NOSHOT"},
     {"BODY", "TRANSLUCENT"}, {"BODY", "NOSHOT", "TRANSLUCENT"}}

ContentMasks ==
    {MASK_SHOT, MASK_SHOT \cup CONTENTS_LIGHTSABER, {"SOLID"}, {"BODY", "NOSHOT"}}

\* The caller takes the result before it calls again.
TakeResult ==
    /\ ret # NoCall
    /\ ret' = NoCall
    /\ UNCHANGED world

FilterInit ==
    \E b \in WorldBounds, first \in {0, NumEnts - 1} :
        LET t == ClearWorldTree(b)
            w == LinkAll(World(t.sectors, [e \in Ents |-> ZeroSvEntity],
                               [e \in Ents |-> ZeroGEntity]),
                         first, IF first = 0 THEN 1 ELSE -1)
        IN /\ sv_worldSectors = w.sectors
           /\ sv_numworldSectors = t.num
           /\ cm_modelBounds = b
           /\ svEntities = w.sv
           /\ gEntities = w.g
           /\ ret = NoCall

\* SV_Trace with the pass entity E and the ownership fields of E and of a
\* candidate C drawn from FilterAttrs.
OwnerStep ==
    /\ ret = NoCall
    /\ \E E \in PassNums, C \in Ents, attrE \in FilterAttrs, attrC \in FilterAttrs,
          contentmask \in FilterMasks :
           SV_Trace(TraceInput(E, contentmask, FALSE, Clear,
                               [e \in Ents |-> IF e = C THEN attrC
                                               ELSE IF e = E THEN attrE ELSE PlainAttr],
                               [e \in Ents |-> Answer(1, FALSE, FALSE)], NoG2))

\* SV_Trace with no pass entity and the contents of each entity drawn from
\* ContentSets.
ContentStep ==
    /\ ret = NoCall
    /\ \E contents \in [Ents -> ContentSets], contentmask \in ContentMasks :
           SV_Trace(TraceInput(ENTITYNUM_NONE, contentmask, FALSE, Clear,
                               [e \in Ents |-> Attr(FALSE, ENTITYNUM_NONE, FALSE,
                                                     contents[e], FALSE)],
                               [e \in Ents |-> Answer(1, FALSE, FALSE)], NoG2))

FilterNext ==
    \/ OwnerStep
    \/ ContentStep
    \/ TakeResult

SpecFilter == FilterInit /\ [][FilterNext]_vars

(***************************************************************************)
(* The leaves of a link: SV_LinkEntity on the answers of CM_BoxLeafnums    *)
(***************************************************************************)
\* Leaf numbers 0 .. MaxLeaf in lists of up to ShortLen leaves.
MaxLeaf == 5
ShortLen == 3

RECURSIVE SeqsUpTo(_, _)
SeqsUpTo(S, n) ==
    IF n = 0 THEN {<<>>}
    ELSE LET shorter == SeqsUpTo(S, n - 1)
         IN shorter \cup {Append(s, x) : s \in {t \in shorter : Len(t) = n - 1}, x \in S}

ShortLeafs == SeqsUpTo(0 .. MaxLeaf, ShortLen)

\* Lists of about MAX_ENT_CLUSTERS leaves: the leaves 1 .. n, with leaf 0
\* (no cluster) at the places named by zeroAt.
LongLeafs ==
    {[i \in 1 .. n |-> IF i \in zeroAt THEN 0 ELSE i] :
        n \in (MAX_ENT_CLUSTERS - 1) .. (MAX_ENT_CLUSTERS + 2),
        zeroAt \in SUBSET {1, MAX_ENT_CLUSTERS, MAX_ENT_CLUSTERS + 1}}

\* lastLeaf is a leaf behind the listed ones, with a cluster other than 0.
LeafInputs == {LinkInput(PoseCross, leafs, Len(leafs) + 1) : leafs \in ShortLeafs \cup LongLeafs}

\* A link that leaves clusters in every slot, an overflow cluster and two
\* areas behind.
PreInput ==
    LinkInput(PoseLeaf, [i \in 1 .. (MAX_ENT_CLUSTERS + 2) |-> i + 2], MAX_ENT_CLUSTERS + 5)

\* The calls to come are drawn at the start: SV_LinkEntity on one entity,
\* with or without an earlier link of the same entity.
LeafInit ==
    \E b \in WorldBounds, ent \in Ents, in \in LeafInputs, pre \in {<<>>, <<PreInput>>} :
        LET t == ClearWorldTree(b)
        IN /\ sv_worldSectors = t.sectors
           /\ sv_numworldSectors = t.num
           /\ cm_modelBounds = b
           /\ svEntities = [e \in Ents |-> ZeroSvEntity]
           /\ gEntities = [e \in Ents |-> ZeroGEntity]
           /\ ret = [op |-> "start", ent |-> ent, in |-> PreInput, todo |-> pre \o <<in>>]

LeafLinkStep ==
    /\ ret.op \in {"start", "SV_LinkEntity"}
    /\ ret.todo # <<>>
    /\ SetWorld(LinkEntity(CurWorld, ret.ent, Head(ret.todo)))
    /\ ret' = [op |-> "SV_LinkEntity", ent |-> ret.ent, in |-> Head(ret.todo),
               todo |-> Tail(ret.todo)]
    /\ UNCHANGED <<sv_numworldSectors, cm_modelBounds>>

LeafNext == LeafLinkStep

SpecLeafs == LeafInit /\ [][LeafNext]_vars

(***************************************************************************)
(* Reading the registry                                                    *)
(***************************************************************************)
Range(seq) == {seq[i] : i \in 1 .. Len(seq)}

\* Every membership <<sector, entity>> of the chains of sectors n, n + 1, ...
\* in chain order.
RECURSIVE MembersFrom(_, _)
MembersFrom(w, n) ==
    IF n = AREA_NODES THEN <<>>
    ELSE IF w.sectors[n].entities = NULL THEN MembersFrom(w, n + 1)
         ELSE LET ch == SectorChain(w, n)
              IN [i \in 1 .. Len(ch) |-> <<n, ch[i]>>] \o MembersFrom(w, n + 1)

Members(w) == MembersFrom(w, 0)

\* The places at which ent stands in a chain, and the sectors holding it.
Places(w, ent) == LET m == Members(w) IN {i \in 1 .. Len(m) : m[i][2] = ent}

Holders(w, ent) == LET m == Members(w) IN {m[i][1] : i \in {j \in 1 .. Len(m) : m[j][2] = ent}}

IsLeaf(n) == sv_worldSectors[n].axis = -1

\* The parent of a sector of the tree and the side (1 or 2, as an index of
\* children) on which the sector hangs.
HasParent(n) == \E p \in Sectors : \E k \in 1 .. 2 : sv_worldSectors[p].children[k] = n

ParentOf(n) == CHOOSE p \in Sectors : \E k \in 1 .. 2 : sv_worldSectors[p].children[k] = n

SideOf(n) == CHOOSE k \in 1 .. 2 : sv_worldSectors[ParentOf(n)].children[k] = n

\* The box is strictly on sector n's side of every split plane above n.
RECURSIVE InsidePlanesAbove(_, _, _)
InsidePlanesAbove(n, absmin, absmax) ==
    IF ~HasParent(n) THEN TRUE
    ELSE LET p == ParentOf(n)
             a == sv_worldSectors[p].axis + 1
         IN /\ IF SideOf(n) = 1 THEN absmin[a] > sv_worldSectors[p].dist
                                ELSE absmax[a] < sv_worldSectors[p].dist
            /\ InsidePlanesAbove(p, absmin, absmax)

\* The region of sector n: the box SV_CreateworldSector was given for it.
RECURSIVE SectorRegion(_)
SectorRegion(n) ==
    IF ~HasParent(n) THEN cm_modelBounds
    ELSE LET p == ParentOf(n)
             r == SectorRegion(p)
             axis == sv_worldSectors[p].axis
         IN IF SideOf(n) = 1
            THEN <<VecSet(r[1], axis, sv_worldSectors[p].dist), r[2]>>
            ELSE <<r[1], VecSet(r[2], axis, sv_worldSectors[p].dist)>>

BoxInside(absmin, absmax, r) ==
    \A i \in 1 .. 3 : r[1][i] <= absmin[i] /\ absmax[i] <= r[2][i]

(***************************************************************************)
(* Claims about the link registry                                          *)
(***************************************************************************)
\* C2: after any sequence of link, unlink and SV_ClearWorld calls no entity
\* stands at more than one place of the sector chains (neither in two
\* sectors nor twice in one chain), and an entity that stands in a chain
\* stands in the chain of the sector that the placement rule chooses for
\* its current absmin and absmax, so a re-link has left the old sector.
C2_OneSectorOnly ==
    \A ent \in Ents :
        /\ Cardinality(Places(CurWorld, ent)) <= 1
        /\ \A n \in Holders(CurWorld, ent) :
               n = FindSector(sv_worldSectors, 0, gEntities[ent].absmin, gEntities[ent].absmax)

\* C2 witness: an entity linked in one sector shares the registry with a
\* second linked entity, and a link that moves it to another sector takes
\* it out of the old chain.
C2_Witness ==
    \E ent \in Ents, in \in LinkInputs :
        LET w2 == LinkEntity(CurWorld, ent, in)
        IN /\ Holders(CurWorld, ent) # {}
           /\ Len(SectorChain(CurWorld, svEntities[ent].worldSector)) >= 2
           /\ Holders(w2, ent) # {}
           /\ Holders(w2, ent) \cap Holders(CurWorld, ent) = {}

\* C3 as the spec states it: every entity in a leaf's chain has its box
\* inside the leaf's region, and every entity in an inner sector's chain
\* has absmin <= dist <= absmax on the split axis.
C3_Original ==
    \A n \in Sectors : \A ent \in Range(SectorChain(CurWorld, n)) :
        IF IsLeaf(n)
        THEN BoxInside(gEntities[ent].absmin, gEntities[ent].absmax, SectorRegion(n))
        ELSE LET a == sv_worldSectors[n].axis + 1
             IN /\ gEntities[ent].absmin[a] <= sv_worldSectors[n].dist
                /\ sv_worldSectors[n].dist <= gEntities[ent].absmax[a]

\* C3, amended: every entity in a sector's chain has its box strictly on
\* the sector's side of every split plane above the sector (the map's outer
\* bounds do not confine it), and every entity in an inner sector's chain
\* has absmin <= dist <= absmax on the split axis.
C3_Placement ==
    \A n \in Sectors : \A ent \in Range(SectorChain(CurWorld, n)) :
        /\ InsidePlanesAbove(n, gEntities[ent].absmin, gEntities[ent].absmax)
        /\ ~IsLeaf(n) =>
               LET a == sv_worldSectors[n].axis + 1
               IN /\ gEntities[ent].absmin[a] <= sv_worldSectors[n].dist
                  /\ sv_worldSectors[n].dist <= gEntities[ent].absmax[a]

\* C3 witness: one entity is linked into a leaf while its box reaches past
\* the map bounds, and another is linked into an inner sector whose split
\* plane it only touches.
C3_Witness ==
    /\ \E n \in Sectors : \E ent \in Range(SectorChain(CurWorld, n)) :
           /\ IsLeaf(n)
           /\ ~BoxInside(gEntities[ent].absmin, gEntities[ent].absmax, SectorRegion(n))
    /\ \E n \in Sectors : \E ent \in Range(SectorChain(CurWorld, n)) :
           /\ ~IsLeaf(n)
           /\ gEntities[ent].absmax[sv_worldSectors[n].axis + 1] = sv_worldSectors[n].dist

\* An entity is unlinked: it has no worldSector and its linked flag is off.
Unlinked(w, ent) == w.sv[ent].worldSector = NULL /\ ~w.g[ent].linked

\* Link followed by unlink of ent leaves ent unlinked and in no chain, and
\* every sector and every other entity as they were.
LinkUnlinkRestores(ent, in) ==
    LET w2 == UnlinkEntity(LinkEntity(CurWorld, ent, in), ent)
    IN /\ Unlinked(w2, ent)
       /\ Holders(w2, ent) = {}
       /\ w2.sectors = sv_worldSectors
       /\ \A o \in Ents \ {ent} : w2.sv[o] = svEntities[o] /\ w2.g[o] = gEntities[o]

\* The cluster and area fields are as SV_LinkEntity resets them.
ClusterDataCleared(e) ==
    e.numClusters = 0 /\ e.lastCluster = 0 /\ e.areanum = -1 /\ e.areanum2 = -1

C6_UnlinkIdempotent ==
    \A ent \in Ents :
        svEntities[ent].worldSector = NULL => UnlinkEntity(CurWorld, ent) = CurWorld

\* C6 witness: an entity that was linked (its clusters are stored) and then
\* unlinked is unlinked once more, next to an entity that is still linked.
C6_Witness ==
    \E ent \in Ents :
        /\ svEntities[ent].worldSector = NULL
        /\ svEntities[ent].numClusters = 2
        /\ \E o \in Ents \ {ent} : gEntities[o].linked
        /\ UnlinkEntity(UnlinkEntity(CurWorld, ent), ent) = CurWorld

(***************************************************************************)
(* Claims about the queries                                                *)
(***************************************************************************)
\* SV_AreaEntities, SV_PointContents and SV_Trace leave the registry as it
\* is, and link and unlink leave ret = NoCall: every registry that is
\* reached is reached in a state with ret = NoCall.  The claims about the
\* queries quantify over the calls that can be made in those states.
\* The entity stands in some sector's chain and its box meets the box
\* mins..maxs on all three axes, bounds included.
LinkedOverlapping(w, mins, maxs) ==
    LET m == Members(w)
    IN {ent \in {m[i][2] : i \in 1 .. Len(m)} :
           \A i \in 1 .. 3 : /\ w.g[ent].absmin[i] <= maxs[i]
                              /\ w.g[ent].absmax[i] >= mins[i]}

\* Boxes that touch entity boxes and split planes from either side.
ClaimBoxes ==
    {<< <<x[1], y[1], z[1]>>, <<x[2], y[2], z[2]>> >> :
        x \in {<<0, 0>>, <<3, 4>>, <<8, 8>>, <<12, 13>>, <<16, 17>>},
        y \in {<<3, 4>>, <<8, 8>>, <<13, 18>>},
        z \in {<<0, 8>>, <<6, 7>>}}

ClaimCaps == {NumEnts, MAX_GENTITIES}

\* C1: for every registry that link and unlink build and every query box,
\* when the matches fit the cap, SV_AreaEntities returns each entity that
\* stands in a chain and whose box overlaps the query box (closed
\* intervals, all three axes) exactly once, and nothing else.
C1_AreaEntitiesExact ==
    ret = NoCall => \A box \in ClaimBoxes \cup QueryBoxes, maxcount \in ClaimCaps :
        LET ap == AreaEntities(CurWorld, box[1], box[2], maxcount)
            want == LinkedOverlapping(CurWorld, box[1], box[2])
        IN Cardinality(want) <= maxcount =>
               /\ Range(ap.list) = want
               /\ Len(ap.list) = Cardinality(want)

\* C1 witness: a query returned two entities that stand in different
\* sectors and left out a linked entity whose box the query box misses.
C1_Witness ==
    /\ ret.op = "SV_AreaEntities"
    /\ ret.maxcount = MAX_GENTITIES
    /\ ret.count = 1
    /\ svEntities[ret.list[1]].worldSector # 0
    /\ \E ent \in Ents : /\ ent \notin Range(ret.list)
                          /\ gEntities[ent].linked
                          /\ svEntities[ent].worldSector = 0

ClaimPoints ==
    {<<3, 3, 5>>, <<4, 4, 4>>, <<8, 8, 8>>, <<13, 13, 4>>, <<18, 2, 4>>}

\* C9: SV_PointContents returns the union of the world's contents at the
\* point and the contents the collision map reports for every entity that
\* stands in a chain and whose box contains the point, the pass entity left
\* out; nothing else is in it.
C9_PointContentsUnion ==
    ret = NoCall => \A p \in ClaimPoints, passEntityNum \in PassNums,
       worldContents \in {{}, {"SOLID"}}, entContents \in {OwnBit} :
        PointContents(CurWorld, PointInput(p, passEntityNum, worldContents, entContents))
            = worldContents \cup
                UNION {entContents[ent] :
                           ent \in LinkedOverlapping(CurWorld, p, p) \ {passEntityNum}}

\* C9 witness: a call at a point inside the boxes of two linked entities, one
\* of them the pass entity, returned the world's bit and the other's bit.
C9_Witness ==
    /\ ret.op = "SV_PointContents"
    /\ ret.in.passEntityNum \in LinkedOverlapping(CurWorld, ret.in.p, ret.in.p)
    /\ Cardinality(LinkedOverlapping(CurWorld, ret.in.p, ret.in.p)) >= 2
    /\ "SOLID" \in ret.contents
    /\ Cardinality(ret.contents) = 2

(***************************************************************************)
(* Claims about the traces                                                 *)
(***************************************************************************)
\* The entities that a call clipped against, in order.
TestedNums(r) == [i \in 1 .. Len(r.tested) |-> r.tested[i][1]]

\* Two candidates A and B answer hits at fA < fB, both before the world's
\* hit at FracOne, with the startsolid flags ssA and ssB.
C4Input(A, B, fA, fB, ssA, ssB) ==
    TraceInput(ENTITYNUM_NONE, {"SOLID"}, FALSE, Clear, [e \in Ents |-> PlainAttr],
               [e \in Ents |-> IF e = A THEN Answer(fA, ssA, FALSE)
                               ELSE IF e = B THEN Answer(fB, ssB, FALSE) ELSE Clear],
               NoG2)

\* C4 as the spec states it: when two unfiltered candidates A and B answer
\* fractions fA < fB below the world's fraction, the trace returns fraction
\* fA and entityNum A, in whichever order the candidate list holds them and
\* whatever startsolid flags they answer.
C4_Original ==
    ret = NoCall =>
        \A A \in Ents, B \in Ents, fA \in 0 .. FracOne - 2, ssA \in BOOLEAN,
           ssB \in BOOLEAN :
            LET r == Trace(CurWorld, C4Input(A, B, fA, fA + 1, ssA, ssB))
            IN (A # B /\ {A, B} \subseteq Range(TestedNums(r))) =>
                   r.trace.fraction = fA /\ r.trace.entityNum = A

\* The excluded entity E and the candidate S are missiles of the owner O;
\* E has SVF_OWNERNOTSHARED, S has it unless sShared.
C7Input(E, S, O, sShared, contentmask) ==
    TraceInput(E, contentmask, FALSE, Clear,
               [e \in Ents |-> IF e = E THEN Attr(TRUE, O, TRUE, {"SOLID", "BODY"}, FALSE)
                               ELSE IF e = S
                                    THEN Attr(TRUE, O, ~sShared, {"SOLID", "BODY"}, FALSE)
                                    ELSE PlainAttr],
               [e \in Ents |-> Answer(1, FALSE, FALSE)], NoG2)

\* Owners other than E and S: another entity, or an entity number beyond
\* the modelled ones.
C7Owners(E, S) == (Ents \cup {NumEnts}) \ {E, S}

C7Masks == {MASK_SHOT, MASK_SHOT \cup CONTENTS_LIGHTSABER, {"SOLID"}, {"BODY", "TRIGGER"}}

\* C7 as the spec states it: with the excluded entity a missile of owner O
\* marked SVF_OWNERNOTSHARED, a candidate missile of the same owner is
\* filtered (never clipped against, never the entityNum) under a generic
\* mask and is not filtered under MASK_SHOT or MASK_SHOT | CONTENTS_LIGHTSABER.
C7_Original ==
    ret = NoCall =>
        \A E \in Ents, S \in Ents, sShared \in BOOLEAN, contentmask \in C7Masks :
            \A O \in C7Owners(E, S) :
                LET r == Trace(CurWorld, C7Input(E, S, O, sShared, contentmask))
                IN (E # S /\ S \in Range(r.touchlist)) =>
                       IF IsShotMask(contentmask)
                       THEN S \notin Range(r.filtered)
                       ELSE /\ S \in Range(r.filtered)
                            /\ S \notin Range(TestedNums(r))
                            /\ r.trace.entityNum # S

\* C7, amended: with the excluded entity a missile of owner O marked
\* SVF_OWNERNOTSHARED, a candidate missile of the same owner is filtered
\* (never clipped against, never the entityNum) exactly when the candidate
\* itself is not marked SVF_OWNERNOTSHARED, under every content mask; a
\* candidate that is marked is clipped against under every mask that meets
\* its contents.
C7_SiblingFilter ==
    ret = NoCall =>
        \A E \in Ents, S \in Ents, sShared \in BOOLEAN, contentmask \in C7Masks :
            \A O \in C7Owners(E, S) :
                LET r == Trace(CurWorld, C7Input(E, S, O, sShared, contentmask))
                IN (E # S /\ S \in Range(r.touchlist)) =>
                       IF sShared
                       THEN /\ S \in Range(r.filtered)
                            /\ S \notin Range(TestedNums(r))
                            /\ r.trace.entityNum # S
                       ELSE /\ S \notin Range(r.filtered)
                            /\ S \in Range(TestedNums(r))

\* C7 witness: both entities are candidates of the move; with entity 0
\* excluded, entity 1 is clipped against under a generic mask when it is
\* marked SVF_OWNERNOTSHARED, and is filtered under MASK_SHOT when it is not.
C7_Witness ==
    LET generic == Trace(CurWorld, C7Input(0, 1, NumEnts, FALSE, {"SOLID"}))
        shot == Trace(CurWorld, C7Input(0, 1, NumEnts, TRUE, MASK_SHOT))
    IN /\ {0, 1} \subseteq Range(generic.touchlist)
       /\ 1 \in Range(TestedNums(generic))
       /\ generic.trace.entityNum = 1
       /\ 1 \in Range(shot.filtered)
       /\ shot.tested = <<>>

\* Answers of the collision map for the world with fraction 0.
BlockedWorld == {Answer(0, TRUE, TRUE), Answer(0, TRUE, FALSE), Answer(0, FALSE, FALSE)}

\* C8: when the world clip answers fraction 0, SV_Trace returns the world's
\* answer with entityNum ENTITYNUM_WORLD and has made no area query, has
\* filtered and skipped no entity and has clipped against none, whatever
\* entities are linked and whatever they would answer.
C8_BlockedAtStart ==
    ret = NoCall =>
        \A wt \in BlockedWorld, passEntityNum \in PassNums, doGhoulTrace \in BOOLEAN,
           entTrace \in {[e \in Ents |-> Clear], [e \in Ents |-> Answer(0, TRUE, TRUE)]} :
            LET r == Trace(CurWorld, TraceInput(passEntityNum, {"SOLID"}, doGhoulTrace, wt,
                                                [e \in Ents |-> PlainAttr], entTrace, NoG2))
            IN /\ r.trace = trace_t(0, wt.startsolid, wt.allsolid, ENTITYNUM_WORLD,
                                    ENTITYNUM_WORLD)
               /\ ~r.areaQueried
               /\ r.filtered = <<>> /\ r.skipped = <<>> /\ r.tested = <<>>

\* C8 witness: SV_Trace was called with a world answer of fraction 0 while
\* two entities stand in the chains, and returned the world's answer without
\* a query.
C8_Witness ==
    /\ ret.op = "SV_Trace"
    /\ ret.in.worldTrace.fraction = 0
    /\ Len(Members(CurWorld)) >= 2
    /\ ret.results.entityNum = ENTITYNUM_WORLD
    /\ ret.results.fraction = 0
    /\ ~ret.areaQueried /\ ret.tested = <<>>

\* Answers of the collision map that satisfy allsolid => fraction = 0.
C10Answers ==
    {Answer(0, TRUE, TRUE), Answer(0, FALSE, FALSE), Answer(1, TRUE, FALSE),
     Answer(FracOne - 1, FALSE, FALSE), Clear}

C10Worlds == {Answer(0, TRUE, TRUE), Answer(FracOne - 1, TRUE, FALSE), Clear}

C10Input(wt, entTrace, doGhoulTrace) ==
    TraceInput(ENTITYNUM_NONE, {"SOLID"}, doGhoulTrace, wt,
               [e \in Ents |-> Attr(FALSE, ENTITYNUM_NONE, FALSE, {"SOLID"}, TRUE)],
               entTrace, NoG2)

\* C10: the trace_t that SV_Trace returns has fraction 0 whenever it has
\* allsolid set, for every candidate list and order that link and unlink
\* build and every answer of the collision map for the world and for each
\* candidate that itself has fraction 0 whenever it has allsolid set, with
\* and without the Ghoul2 check putting the old trace back.
C10_AllsolidFractionZero ==
    ret = NoCall =>
        \A wt \in C10Worlds, entTrace \in [Ents -> C10Answers], doGhoulTrace \in BOOLEAN :
            LET r == Trace(CurWorld, C10Input(wt, entTrace, doGhoulTrace))
            IN r.trace.allsolid => r.trace.fraction = 0

\* C10 witness: the first candidate answers a hit at 1 / FracOne, the
\* second answers allsolid, and the result is allsolid with fraction 0.
C10_Witness ==
    \E entTrace \in [Ents -> {Answer(1, FALSE, FALSE), Answer(0, TRUE, TRUE)}] :
        LET r == Trace(CurWorld, C10Input(Clear, entTrace, FALSE))
        IN /\ Len(r.tested) = 2
           /\ entTrace[r.tested[1][1]].fraction = 1
           /\ entTrace[r.tested[2][1]].allsolid
           /\ r.trace.allsolid /\ r.trace.fraction = 0

(***************************************************************************)
(* Claims about entities outside the world and about SV_ClearWorld         *)
(***************************************************************************)
\* The link of an entity far outside the map, for which CM_BoxLeafnums
\* finds no leaf, and queries that reach the entity's box there.
FarInput == LinkInput(PoseFar, <<>>, 0)

FarBoxes == {<< <<39, 39, 3>>, <<41, 41, 5>> >>, << <<0, 0, 0>>, <<48, 48, 8>> >>}

FarTrace ==
    [TraceInput(ENTITYNUM_NONE, {"SOLID"}, FALSE, Clear, [e \in Ents |-> PlainAttr],
                [e \in Ents |-> Answer(1, FALSE, FALSE)], NoG2)
        EXCEPT !.start = <<36, 36, 0>>, !.end = <<44, 44, 8>>]

FarPoint == PointInput(<<40, 40, 4>>, ENTITYNUM_NONE, {}, OwnBit)

\* C11: when CM_BoxLeafnums finds no leaf, SV_LinkEntity leaves the entity
\* without worldSector, in no sector's chain and with linked off, whether or
\* not it stood in a chain before, and SV_AreaEntities, SV_Trace and
\* SV_PointContents on boxes that reach its abs box do not see it; and an
\* entity without worldSector is in no chain in any state that link, unlink
\* and SV_ClearWorld reach, so it stays unseen until a link sets worldSector.
C11_NoLeafUnlinked ==
    /\ \A ent \in Ents :
           LET w2 == LinkEntity(CurWorld, ent, FarInput)
               tr == Trace(w2, FarTrace)
           IN /\ Unlinked(w2, ent)
              /\ Holders(w2, ent) = {}
              /\ \A box \in FarBoxes :
                     ent \notin Range(AreaEntities(w2, box[1], box[2], MAX_GENTITIES).list)
              /\ ent \notin Range(tr.touchlist)
              /\ tr.trace.entityNum # ent
              /\ OwnBit[ent] \cap PointContents(w2, FarPoint) = {}
    /\ \A ent \in Ents :
           svEntities[ent].worldSector = NULL =>
               Holders(CurWorld, ent) = {} /\ ~gEntities[ent].linked

\* C11 witness: an entity that stands in a chain next to another entity is
\* linked at the far place, gets the abs box there and leaves its chain,
\* while the other entity stays.
C11_Witness ==
    \E ent \in Ents :
        LET w2 == LinkEntity(CurWorld, ent, FarInput)
        IN /\ gEntities[ent].linked
           /\ Holders(CurWorld, ent) # {}
           /\ Len(SectorChain(CurWorld, svEntities[ent].worldSector)) >= 2
           /\ w2.g[ent].absmin = <<39, 39, 3>>
           /\ Holders(w2, ent) = {}
           /\ Len(Members(w2)) = Len(Members(CurWorld)) - 1

ClearBoxes == {<< <<0, 0, 0>>, <<48, 48, 8>> >>, << <<3, 3, 5>>, <<4, 4, 6>> >>}

\* C12: right after SV_ClearWorld every sector's chain is empty, and
\* SV_AreaEntities returns no entity for any box, the entities that stood
\* in chains before the call included.
C12_ClearWorldEmpties ==
    \A b \in WorldBounds \cup {MapWide} :
        LET w2 == ClearWorld(CurWorld, b)
        IN /\ \A n \in Sectors : w2.sectors[n].entities = NULL
           /\ Members(w2) = <<>>
           /\ \A box \in ClearBoxes :
                  AreaEntities(w2, box[1], box[2], MAX_GENTITIES).list = <<>>

\* C12 witness: two entities stand in the chains of different sectors and a
\* query returns both; after SV_ClearWorld the same query returns none.
C12_Witness ==
    \E box \in ClearBoxes :
        LET before == AreaEntities(CurWorld, box[1], box[2], MAX_GENTITIES).list
            w2 == ClearWorld(CurWorld, cm_modelBounds)
        IN /\ Len(before) = 2
           /\ svEntities[before[1]].worldSector # svEntities[before[2]].worldSector
           /\ AreaEntities(w2, box[1], box[2], MAX_GENTITIES).list = <<>>

(***************************************************************************)
(* Claims about the merge of the candidates' answers                       *)
(***************************************************************************)
\* A trace with no pass entity and without the Ghoul2 check, in which every
\* entity is a candidate that the mask meets.
PlainTrace(wt, entTrace) ==
    TraceInput(ENTITYNUM_NONE, {"SOLID"}, FALSE, wt, [e \in Ents |-> PlainAttr],
               entTrace, NoG2)

\* C13 as the spec states it: when a candidate that is clipped against
\* answers allsolid, the result has allsolid set and that candidate as
\* entityNum, whatever fractions the earlier candidates answered, and no
\* later candidate is clipped against.
C13_Original ==
    ret = NoCall =>
        \A entTrace \in [Ents -> C10Answers] :
            LET r == Trace(CurWorld, PlainTrace(Clear, entTrace))
            IN \A i \in 1 .. Len(r.tested) :
                   entTrace[r.tested[i][1]].allsolid =>
                       /\ r.trace.allsolid
                       /\ r.trace.entityNum = r.tested[i][1]
                       /\ i = Len(r.tested)

\* C14 as the spec states it: once the world clip or a candidate that is
\* clipped against has answered startsolid, the result has startsolid set,
\* also when a later candidate with a smaller fraction and without
\* startsolid replaces the result.
C14_Original ==
    ret = NoCall =>
        \A wt \in C10Worlds, entTrace \in [Ents -> C10Answers] :
            LET r == Trace(CurWorld, PlainTrace(wt, entTrace))
            IN (wt.startsolid \/ \E i \in 1 .. Len(r.tested) :
                                     entTrace[r.tested[i][1]].startsolid)
                   => r.trace.startsolid

(***************************************************************************)
(* Claims about the candidate checks                                       *)
(***************************************************************************)
\* The ownership protocol in the spec's words, for the excluded entity E of
\* the call and a candidate C.
OwnerRule(in, C) ==
    LET E == in.passEntityNum
        c == in.attrs[C]
    IN IF E = ENTITYNUM_NONE THEN FALSE
       ELSE LET e == in.attrs[E]
            IN \/ C = E
               \/ /\ c.ownerNum = E
                  /\ ~(/\ c.ownerNotShared
                        /\ in.contentmask \in {MASK_SHOT, MASK_SHOT \cup CONTENTS_LIGHTSABER})
               \/ /\ e.ownerNum # ENTITYNUM_NONE
                  /\ c.ownerNum = e.ownerNum
                  /\ ~c.ownerNotShared /\ ~e.ownerNotShared
               \/ /\ c.missile
                  /\ ~c.ownerNotShared
                  /\ e.ownerNum # ENTITYNUM_NONE
                  /\ c.ownerNum = e.ownerNum

C16_Original ==
    ret.op = "SV_Trace" =>
        \A C \in Range(ret.touchlist) :
            LET contents == ret.in.attrs[C].contents
            IN (\/ contents \cap ret.in.contentmask = {}
                \/ /\ ret.in.contentmask \in {MASK_SHOT, MASK_SHOT \cup CONTENTS_LIGHTSABER}
                   /\ "NOSHOT" \in contents)
                   => /\ C \notin Range(TestedNums(ret))
                      /\ ret.results.entityNum # C

(***************************************************************************)
(* Claims about the result cap of SV_AreaEntities                          *)
(***************************************************************************)
CapBoxes ==
    QueryBoxes \cup {<< <<0, 0, 0>>, <<3, 3, 8>> >>, << <<12, 4, 0>>, <<13, 12, 8>> >>,
                     << <<16, 8, 6>>, <<17, 13, 7>> >>}

Min2(a, b) == IF a < b THEN a ELSE b

\* C17: SV_AreaEntities stores at most maxcount entity numbers and returns
\* a count <= maxcount; its list is the first maxcount entries (all of them
\* when fewer overlap) of the list that the walk without cap produces, in
\* the same order.
C17_TruncatedPrefix ==
    ret = NoCall =>
        \A box \in CapBoxes, maxcount \in 0 .. NumEnts :
            LET all == AreaEntities(CurWorld, box[1], box[2], MAX_GENTITIES).list
                got == AreaEntities(CurWorld, box[1], box[2], maxcount)
            IN /\ Len(got.list) <= maxcount
               /\ got.list = SubSeq(all, 1, Min2(maxcount, Len(all)))
               /\ got.maxed <=> Len(all) > maxcount

\* C17 witness: a call with maxcount 1 on a box that two linked entities in
\* different sectors overlap returned the first of the two and reported
\* MAXCOUNT.
C17_Witness ==
    /\ ret.op = "SV_AreaEntities"
    /\ ret.maxcount = 1
    /\ ret.maxed
    /\ LET all == AreaEntities(CurWorld, ret.mins, ret.maxs, MAX_GENTITIES).list
       IN /\ Len(all) = 2
          /\ svEntities[all[1]].worldSector # svEntities[all[2]].worldSector
          /\ ret.list = <<all[1]>>

(***************************************************************************)
(* Claims about the areas and clusters a link stores (SpecLeafs)           *)
(***************************************************************************)
\* The valid areas of the leaves from leafs[i] on, each once, in the order
\* of their first leaf.
RECURSIVE DistinctAreas(_, _, _)
DistinctAreas(leafs, i, seen) ==
    IF i > Len(leafs) THEN seen
    ELSE LET area == CM_LeafArea(leafs[i])
         IN IF area = -1 \/ area \in Range(seen)
            THEN DistinctAreas(leafs, i + 1, seen)
            ELSE DistinctAreas(leafs, i + 1, Append(seen, area))

\* The valid clusters of the leaves, in the order of the leaves.
ValidClusters(leafs) ==
    SelectSeq([i \in 1 .. Len(leafs) |-> CM_LeafCluster(leafs[i])], LAMBDA c : c # -1)

\* The last step was a link that found at least one leaf.
Linked(r) == r.op = "SV_LinkEntity" /\ Len(r.in.leafs) > 0

\* C18: after a link that found leaves, areanum and areanum2 are the first
\* two distinct valid areas of the leaves in the order of the leaves (-1
\* where there is none); a third distinct area changes neither.
C18_Original ==
    Linked(ret) =>
        LET areas == DistinctAreas(ret.in.leafs, 1, <<>>)
        IN /\ svEntities[ret.ent].areanum = IF Len(areas) >= 1 THEN areas[1] ELSE -1
           /\ svEntities[ret.ent].areanum2 = IF Len(areas) >= 2 THEN areas[2] ELSE -1

\* C19: after a link that found leaves, the stored clusters are the first
\* valid clusters of the leaves in their order, at most MAX_ENT_CLUSTERS of
\* them; lastCluster is the cluster of lastLeaf exactly when the leaves have
\* more valid clusters than MAX_ENT_CLUSTERS, and 0 when they all fit.
C19_Original ==
    Linked(ret) =>
        LET valid == ValidClusters(ret.in.leafs)
            e == svEntities[ret.ent]
        IN /\ e.numClusters = Min2(Len(valid), MAX_ENT_CLUSTERS)
           /\ \A k \in 0 .. (e.numClusters - 1) : e.clusternums[k] = valid[k + 1]
           /\ e.lastCluster = IF Len(valid) > MAX_ENT_CLUSTERS
                              THEN CM_LeafCluster(ret.in.lastLeaf) ELSE 0

(***************************************************************************)
(* Claims about the shape of the sector tree (Spec)                        *)
(***************************************************************************)
\* The walk from sector n, depth levels below sector 0, down the children:
\* whether every sector met has the form of its level, and the sectors met,
\* one entry per path, parent first, then children[0], then children[1].
RECURSIVE Walk(_, _, _)
Walk(sectors, n, depth) ==
    IF depth = AREA_DEPTH
    THEN [ok |-> sectors[n].axis = -1 /\ sectors[n].children = <<NULL, NULL>>,
          nodes |-> <<n>>]
    ELSE LET c == sectors[n].children
             below0 == Walk(sectors, c[1], depth + 1)
             below1 == Walk(sectors, c[2], depth + 1)
         IN IF c[1] \in Sectors /\ c[2] \in Sectors
            THEN [ok |-> /\ sectors[n].axis \in {0, 1}
                         /\ c[1] # c[2]
                         /\ below0.ok
                         /\ below1.ok,
                  nodes |-> <<n>> \o below0.nodes \o below1.nodes]
            ELSE [ok |-> FALSE, nodes |-> <<n>>]

\* Bounds CM_ModelBounds may return: a square map, a wide one, a tall one,
\* one with negative coordinates and an empty one.
TreeBounds ==
    {MapSquare, MapWide, << <<0, 0, 0>>, <<16, 48, 8>> >>,
     << <<-9, -3, -8>>, <<7, 30, 8>> >>, <<vec3_origin, vec3_origin>>}

\* A complete binary tree of depth AREA_DEPTH in the first num sectors:
\* every sector above the bottom level has an axis and two distinct children,
\* the bottom sectors are leaves, the paths from sector 0 end in
\* 2^(AREA_DEPTH+1) - 1 sectors, no two in the same one, and these are the
\* sectors 0 .. num - 1.
TreeShape(sectors, num) ==
    LET t == Walk(sectors, 0, 0)
    IN /\ num = 2 ^ (AREA_DEPTH + 1) - 1
       /\ num <= AREA_NODES
       /\ t.ok
       /\ Len(t.nodes) = 2 ^ (AREA_DEPTH + 1) - 1
       /\ Cardinality(Range(t.nodes)) = Len(t.nodes)
       /\ Range(t.nodes) = 0 .. (num - 1)

\* C20: after any number of SV_ClearWorld calls, and after one more for any
\* map bounds, the tree is a complete binary tree of depth AREA_DEPTH with
\* 2^(AREA_DEPTH+1) - 1 = 31 sectors, within the AREA_NODES array: every
\* sector above the bottom level splits on axis 0 or 1 and has two distinct
\* children, every bottom sector is a leaf without children, and no sector
\* is reached by two paths.
C20_CompleteTree ==
    /\ TreeShape(sv_worldSectors, sv_numworldSectors)
    /\ \A b \in TreeBounds :
           LET t == ClearWorldTree(b) IN TreeShape(t.sectors, t.num)

\* C20 witness: the tree was built again while entities were linked: an
\* entity still names the sector it stood in, and every chain is empty.
C20_Witness ==
    /\ \E e \in Ents : svEntities[e].worldSector # NULL /\ gEntities[e].linked
    /\ \A n \in Sectors : sv_worldSectors[n].entities = NULL
    /\ sv_numworldSectors = 31
    /\ Len(Walk(sv_worldSectors, 0, 0).nodes) = 31

(***************************************************************************)
(* Claims about the registry after SV_ClearWorld (Spec)                    *)
(***************************************************************************)
\* The entity names a sector whose chain does not hold it.
Stale(w, ent) ==
    /\ w.sv[ent].worldSector # NULL
    /\ ent \notin Range(SectorChain(w, w.sv[ent].worldSector))

\* The link inputs for which CM_BoxLeafnums finds a leaf.
LeafyInputs == {in \in LinkInputs : in.leafs # <<>>}

\* C21: SV_UnlinkEntity on an entity whose worldSector does not hold it in
\* its chain (as after SV_ClearWorld) changes no sector and no chain, leaves
\* every other entity as it was, and leaves the entity without worldSector
\* and with linked off; a following SV_LinkEntity puts the entity at the
\* head of the chain of the sector chosen for its box, the earlier chain
\* behind it, with linked on.
C21_StaleUnlink ==
    \A ent \in Ents :
        Stale(CurWorld, ent) =>
            LET w2 == UnlinkEntity(CurWorld, ent)
            IN /\ w2.sectors = sv_worldSectors
               /\ Members(w2) = Members(CurWorld)
               /\ \A o \in Ents \ {ent} : w2.sv[o] = svEntities[o] /\ w2.g[o] = gEntities[o]
               /\ Unlinked(w2, ent)
               /\ \A in \in LeafyInputs :
                      LET w3 == LinkEntity(w2, ent, in)
                          node == FindSector(w3.sectors, 0, w3.g[ent].absmin, w3.g[ent].absmax)
                      IN /\ w3.sv[ent].worldSector = node
                         /\ w3.g[ent].linked
                         /\ SectorChain(w3, node) = <<ent>> \o SectorChain(w2, node)
                         /\ \A n \in Sectors \ {node} : SectorChain(w3, n) = SectorChain(w2, n)

\* C21 witness: after SV_ClearWorld an entity still names the sector it
\* stood in and the entity that stood behind it there, while that sector's
\* new chain holds another entity; the unlink scans that chain and finds
\* nothing.
C21_Witness ==
    \E ent \in Ents :
        /\ Stale(CurWorld, ent)
        /\ gEntities[ent].linked
        /\ svEntities[ent].nextEntityInWorldSector # NULL
        /\ SectorChain(CurWorld, svEntities[ent].worldSector) # <<>>
        /\ Unlinked(UnlinkEntity(CurWorld, ent), ent)

\* C22: after any sequence of link, unlink and SV_ClearWorld calls an
\* entity's worldSector is sector n exactly when the entity stands in the
\* chain of n, and its linked flag is on exactly when worldSector is set.
C22_Original ==
    \A ent \in Ents :
        /\ \A n \in Sectors :
               svEntities[ent].worldSector = n <=> ent \in Range(SectorChain(CurWorld, n))
        /\ gEntities[ent].linked <=> svEntities[ent].worldSector # NULL

\* A chain read from the head ends in NULL without meeting an entity twice.
WellFormedChain(w, n) ==
    LET ch == SectorChain(w, n)
    IN /\ Cardinality(Range(ch)) = Len(ch)
       /\ ch # <<>> => w.sv[ch[Len(ch)]].nextEntityInWorldSector = NULL

====
